---- MODULE Spec2Model ----
(***************************************************************************)
(* Model of src/Quality1.py, the translation quality dashboard script.     *)
(*                                                                         *)
(* The script runs top to bottom once per render.  Each block of the       *)
(* script is one action; pc names the block that runs next.  A raised      *)
(* exception stops the run: pc = "failed" and failure names the place.     *)
(*                                                                         *)
(* Data representation                                                     *)
(*   - a cell is a tuple; the empty tuple NaN is the missing value (NaN,   *)
(*     NaT) that read_excel gives for an empty cell;                       *)
(*   - a date is <<year, month, day>> (every use in the script goes        *)
(*     through .dt.date or .dt.to_period('M'));                            *)
(*   - a categorical value is a one element tuple <<"Major">>;             *)
(*   - a free text is the tuple of its characters <<"a", "b">>;            *)
(*   - an owner cell is <<type, text>>: <<"str", "A">> is the string "A",  *)
(*     <<"int", "5">> the number 5 whose str() is "5";                     *)
(*   - a row is a function from the column names of the frame to cells;    *)
(*   - a frame derived from df (filtered_df, display_df, page_df) is the   *)
(*     sequence of the index labels (positions in df) of its rows.         *)
(***************************************************************************)
EXTENDS Integers, Sequences, FiniteSets, TLC

VARIABLES
    uploaded_file,   \* what the file uploader holds: a file, BadFile or NoFile
    pc,              \* the block of the script that runs next
    failure,         \* "none", or the exception that stopped the run
    df,              \* the record set: [cols, rows]
    all_owners,      \* the owner options offered next to "All Owners"
    selected_owner,  \* selectbox value
    date_range,      \* date_input value: a tuple of 0, 1 or 2 dates
    filtered_df,     \* index labels of the rows that pass the filters
    granularity,     \* [trend, cat, subcat] -> "day" | "month"
    trends,          \* [time_trend, cat_time, subcat_time] grouped counts
    pivot_table,     \* heatmap matrix [rows, cols, cell]
    value_counts,    \* [factor_df, cat_df, subcat_df, clarif_df, subclarif_df]
    search_term,     \* text_input value
    display_df,      \* searched and sorted rows
    total_pages,     \* page count
    page,            \* slider value, 0 when no slider is drawn
    page_df,         \* rows of the page shown
    rendered,        \* what the detail view wrote: one record per row of the page
    metrics,         \* the three tiles [total, internal, external]
    messages         \* the notices the run has shown (st.info / st.error)

vars == <<uploaded_file, pc, failure, df, all_owners, selected_owner, date_range,
          filtered_df, granularity, trends, pivot_table, value_counts, search_term,
          display_df, total_pages, page, page_df, rendered, metrics, messages>>

----------------------------------------------------------------------------
(* Bounds of the model *)

\* most rows a hand-built uploaded file holds
MaxRows == 2

\* most rows of the long uploaded files used for paging
MaxPageRows == 23

(* Program constants *)

\* rows of the demo data
DemoRows == 100

\* rows per page of the detail view
items_per_page == 10

----------------------------------------------------------------------------
(* Cells *)

NaN == <<>>

isna(v) == v = NaN

Cat(s) == <<s>>

StrOwner(s) == <<"str", s>>
IntOwner(s) == <<"int", s>>

\* str(owner)
str(owner) == owner[2]

\* lexicographic order of dates
DateLE(a, b) ==
    \/ a[1] < b[1]
    \/ a[1] = b[1] /\ a[2] < b[2]
    \/ a[1] = b[1] /\ a[2] = b[2] /\ a[3] <= b[3]

\* the dates the date picker can be set to
WidgetDates == { <<2023, 1, 10>>, <<2023, 1, 20>>, <<2023, 2, 10>>, <<2024, 1, 10>> }

Min(a, b) == IF a <= b THEN a ELSE b
Max(a, b) == IF a >= b THEN a ELSE b

----------------------------------------------------------------------------
(* Text *)

UpperCase == <<"A", "B", "C", "D", "E", "K", "S", "T", "X">>
LowerCase == <<"a", "b", "c", "d", "e", "k", "s", "t", "x">>

\* str.lower() of one character
lower(c) ==
    IF \E i \in 1..Len(UpperCase) : UpperCase[i] = c
    THEN LowerCase[CHOOSE i \in 1..Len(UpperCase) : UpperCase[i] = c]
    ELSE c

Digits == <<"0", "1", "2", "3", "4", "5", "6", "7", "8", "9">>

\* the last digit of i, as the f-strings of the demo data write it
Digit(i) == Digits[(i % 10) + 1]

----------------------------------------------------------------------------
(* Columns and rows *)

\* the columns the script reads
ReadColumns ==
    { "LQE Date", "Owner", "Task ID", "Project", "Content Type", "Product",
      "Service Type", "Issue Type", "Internal/External factor validated by LL",
      "Category", "Sub - cateogory", "Clarification", "Sub-clarification",
      "Source Text", "Translated Text", "Corrected Text Show Edits",
      "Error Type & comment", "Final status", "Remark" }

\* a column a file may use in place of "Corrected Text Show Edits"
AltCorrectedColumn == "Corrected text (edits)"

\* a complete row
BaseRow ==
    [ c \in ReadColumns |->
        CASE c = "LQE Date" -> <<2023, 1, 20>>
          [] c = "Owner" -> StrOwner("A")
          [] c = "Task ID" -> <<"T", "-", "1">>
          [] c = "Internal/External factor validated by LL" -> Cat("Internal")
          [] c = "Category" -> Cat("Major")
          [] c = "Sub - cateogory" -> Cat("Linguistic")
          [] c = "Clarification" -> Cat("Clarification 0")
          [] c = "Sub-clarification" -> Cat("Sub-clarification 0")
          [] c = "Source Text" -> <<"s", "r", "c">>
          [] c = "Translated Text" -> <<"t", "r", "a">>
          [] c = "Corrected Text Show Edits" -> <<"c", "o", "r">>
          [] c = "Error Type & comment" -> <<"e", "r", "r">>
          [] c = "Remark" -> <<"r", "e", "m">>
          [] OTHER -> Cat("x") ]

\* row with the cell of column c set to v
With(row, c, v) == (c :> v) @@ row

\* row without column c
Without(row, c) == [ k \in (DOMAIN row) \ {c} |-> row[k] ]

\* all sequences over U of length at most n
SeqsUpTo(U, n) == UNION { [1..k -> U] : k \in 0..n }

\* a parsed spreadsheet
Xlsx(cols, rows) == [kind |-> "xlsx", cols |-> cols, rows |-> rows]
NoFile == [kind |-> "none", cols |-> {}, rows |-> <<>>]
BadFile == [kind |-> "bad", cols |-> {}, rows |-> <<>>]

----------------------------------------------------------------------------
(* generate_demo_data *)

DemoOwners == <<"Owner A", "Owner B", "Owner C", "Owner D", "Owner E">>
DemoFactors == <<"Internal", "External">>
DemoCategories == <<"Major", "Minor", "Critical">>
DemoSubCategories == <<"Linguistic", "Technical", "Stylistic">>

\* the seeds that stand for the draws of np.random
DemoSeeds == {1, 2}

\* the k-th random draw of row i under a seed, in 0..n-1
Draw(seed, i, k, n) == (i * (seed + k) + seed * k + (i \div 7)) % n

DemoRow(seed, i) ==
    [ c \in ReadColumns |->
        CASE c = "LQE Date" -> <<2023, 1 + Draw(seed, i, 1, 5), 1 + Draw(seed, i, 2, 27)>>
          [] c = "Owner" -> StrOwner(DemoOwners[1 + Draw(seed, i, 3, 5)])
          [] c = "Task ID" -> <<"T", "A", "S", "K", "-", Digit(Draw(seed, i, 4, 10))>>
          [] c = "Internal/External factor validated by LL" ->
                 Cat(DemoFactors[1 + Draw(seed, i, 5, 2)])
          [] c = "Category" -> Cat(DemoCategories[1 + Draw(seed, i, 6, 3)])
          [] c = "Sub - cateogory" -> Cat(DemoSubCategories[1 + Draw(seed, i, 7, 3)])
          [] c = "Clarification" -> Cat(Digit(i % 5))
          [] c = "Sub-clarification" -> Cat(Digit(i % 3))
          [] c = "Source Text" -> <<"S", "o", "u", "r", "c", "e", " ", Digit(i)>>
          [] c = "Translated Text" -> <<"T", "r", "a", "n", "s", " ", Digit(i)>>
          [] c = "Corrected Text Show Edits" -> <<"C", "o", "r", "r", " ", Digit(i)>>
          [] c = "Error Type & comment" -> <<"E", "r", "r", "o", "r", " ", Digit(i)>>
          [] c = "Remark" -> <<"R", "e", "m", "a", "r", "k", " ", Digit(i)>>
          [] OTHER -> Cat("x") ]

generate_demo_data(seed) ==
    [cols |-> ReadColumns, rows |-> [ i \in 1..DemoRows |-> DemoRow(seed, i - 1) ]]

----------------------------------------------------------------------------
(* Load data: lines 102-121 *)
(* pd.to_datetime leaves a date as it is and turns an empty cell into NaT,  *)
(* which is how the cells of a file are written here; the Month and Year    *)
(* columns it adds are never read.                                          *)

Raise(e) == pc' = "failed" /\ failure' = e

LoadData ==
    /\ pc = "load"
    /\ \E seed \in DemoSeeds :
        /\ df' = IF uploaded_file.kind = "xlsx"
                 THEN [cols |-> uploaded_file.cols, rows |-> uploaded_file.rows]
                 ELSE generate_demo_data(seed)
        /\ messages' = CASE uploaded_file.kind = "xlsx" -> messages
                         [] uploaded_file.kind = "bad" ->
                              messages \cup {"Error loading file", "Using demo data due to error"}
                         [] OTHER -> messages \cup {"Using demo data"}
    /\ pc' = "sidebar"
    /\ UNCHANGED <<uploaded_file, failure, all_owners, selected_owner, date_range,
                   filtered_df, granularity, trends, pivot_table, value_counts,
                   search_term, display_df, total_pages, page, page_df, rendered, metrics>>

----------------------------------------------------------------------------
(* Sidebar filters: lines 123-137 *)
(* min() and max() skip NaT; with no dated row they are NaT and date_input  *)
(* has no date to start from, which ends the run.                           *)

Column(frame, c) == { frame.rows[i][c] : i \in 1..Len(frame.rows) }

\* owners_list, as the set of its labels
owners_list(frame) ==
    { IF isna(owner) THEN "Unknown" ELSE str(owner) : owner \in Column(frame, "Owner") }

\* the dates of the rows that have one
Dated(frame) == { d \in Column(frame, "LQE Date") : ~ isna(d) }

date_min(frame) == CHOOSE d \in Dated(frame) : \A e \in Dated(frame) : DateLE(d, e)
date_max(frame) == CHOOSE d \in Dated(frame) : \A e \in Dated(frame) : DateLE(e, d)

\* what date_input can return: its default, or what the user picks
DateRanges(frame) ==
    { <<date_min(frame), date_max(frame)>> }
    \cup { <<>> } \cup { <<d>> : d \in WidgetDates }
    \cup { <<s, e>> : s \in WidgetDates, e \in WidgetDates }

SidebarFilters ==
    /\ pc = "sidebar"
    /\ IF "Owner" \notin df.cols
       THEN /\ Raise("KeyError: 'Owner'")
            /\ UNCHANGED <<all_owners, selected_owner, date_range>>
       ELSE IF "LQE Date" \notin df.cols
       THEN /\ Raise("KeyError: 'LQE Date'")
            /\ all_owners' = owners_list(df)
            /\ UNCHANGED <<selected_owner, date_range>>
       ELSE IF Dated(df) = {}
       THEN /\ Raise("date_input: NaT")
            /\ all_owners' = owners_list(df)
            /\ UNCHANGED <<selected_owner, date_range>>
       ELSE /\ all_owners' = owners_list(df)
            /\ selected_owner' \in {"All Owners"} \cup owners_list(df)
            /\ date_range' \in DateRanges(df)
            /\ pc' = "filter"
            /\ UNCHANGED failure
    /\ UNCHANGED <<uploaded_file, df, filtered_df, granularity, trends, pivot_table,
                   value_counts, search_term, display_df, total_pages, page, page_df,
                   rendered, metrics, messages>>

----------------------------------------------------------------------------
(* Apply filters: lines 139-147 *)

\* filtered_df['Owner'] == selected_owner, for one cell: a missing owner and a
\* non-string owner are not equal to any string
OwnerEq(owner, selected) ==
    /\ ~ isna(owner)
    /\ owner[1] = "str"
    /\ owner[2] = selected

\* InRange with the end of the range left out
InRangeOpenEnd(d, start_date, end_date) ==
    /\ ~ isna(d)
    /\ DateLE(start_date, d)
    /\ DateLE(d, end_date)
    /\ d # end_date

\* (date >= start_date) & (date <= end_date), for one cell: a comparison with a
\* missing date is False
InRange(d, start_date, end_date) ==
    /\ ~ isna(d)
    /\ DateLE(start_date, d)
    /\ DateLE(d, end_date)

AllRows(frame) == [ i \in 1..Len(frame.rows) |-> i ]

OwnerFilter(frame, idx, selected) ==
    IF selected # "All Owners"
    THEN SelectSeq(idx, LAMBDA i : OwnerEq(frame.rows[i]["Owner"], selected))
    ELSE idx

RangeFilter(frame, idx, range) ==
    IF Len(range) = 2
    THEN SelectSeq(idx, LAMBDA i : InRange(frame.rows[i]["LQE Date"], range[1], range[2]))
    ELSE idx

ApplyFilters ==
    /\ pc = "filter"
    /\ filtered_df' = RangeFilter(df, OwnerFilter(df, AllRows(df), selected_owner), date_range)
    /\ pc' = "metrics"
    /\ UNCHANGED <<uploaded_file, failure, df, all_owners, selected_owner, date_range,
                   granularity, trends, pivot_table, value_counts, search_term,
                   display_df, total_pages, page, page_df, rendered, metrics, messages>>

----------------------------------------------------------------------------
(* Metric tiles: lines 149-182 *)

\* the index labels of a derived frame, as a set
Labels(idx) == { idx[j] : j \in 1..Len(idx) }

FactorColumn == "Internal/External factor validated by LL"

\* frame[frame[c] == value].shape[0]
CountEqual(frame, idx, c, value) ==
    Cardinality({ i \in Labels(idx) : frame.rows[i][c] = value })

Metrics ==
    /\ pc = "metrics"
    /\ IF FactorColumn \notin df.cols
       THEN /\ Raise("KeyError: 'Internal/External factor validated by LL'")
            /\ UNCHANGED metrics
       ELSE /\ metrics' = [total |-> Len(filtered_df),
                           internal |-> CountEqual(df, filtered_df, FactorColumn, Cat("Internal")),
                           external |-> CountEqual(df, filtered_df, FactorColumn, Cat("External"))]
            /\ pc' = "trend"
            /\ UNCHANGED failure
    /\ UNCHANGED <<uploaded_file, df, all_owners, selected_owner, date_range, filtered_df,
                   granularity, trends, pivot_table, value_counts, search_term,
                   display_df, total_pages, page, page_df, rendered, messages>>

----------------------------------------------------------------------------
(* Trend charts: lines 184-257 *)

\* same_month without the comparison of the years
same_month_any_year(start_date, end_date) == start_date[2] = end_date[2]

\* line 190
same_month(start_date, end_date) ==
    (start_date[1] = end_date[1]) /\ (start_date[2] = end_date[2])

\* lines 187-211: the bucket of the overall trend
TrendGranularity(range) ==
    IF Len(range) = 2
    THEN IF same_month(range[1], range[2]) THEN "day" ELSE "month"
    ELSE "month"

\* line 223: the bucket of the category trend
CatGranularity(range) ==
    IF Len(range) = 2 /\ (range[1][1] = range[2][1]) /\ (range[1][2] = range[2][2])
    THEN "day" ELSE "month"

\* line 242: the bucket of the sub-category trend
SubcatGranularity(range) ==
    IF Len(range) = 2 /\ (range[1][1] = range[2][1]) /\ (range[1][2] = range[2][2])
    THEN "day" ELSE "month"

\* .dt.date, or .dt.to_period('M') shown as the first day of the month
Bucket(d, gran) ==
    IF isna(d) THEN NaN
    ELSE IF gran = "day" THEN d ELSE <<d[1], d[2], 1>>

\* groupby drops a row when one of its key cells is missing
HasKey(key) == \A k \in 1..Len(key) : ~ isna(key[k])

\* frame.groupby(keys)['Task ID'].count(), keys[i] being the key of row i: per
\* key, the rows whose Task ID is not missing
GroupCount(frame, keys) ==
    LET kept == { i \in DOMAIN keys : HasKey(keys[i]) }
    IN  [ key \in { keys[i] : i \in kept } |->
            Cardinality({ i \in kept : keys[i] = key /\ ~ isna(frame.rows[i]["Task ID"]) }) ]

\* frame.groupby(keys).size(), keys[i] being the key of row i: per key, the rows
GroupSize(keys) ==
    LET kept == { i \in DOMAIN keys : HasKey(keys[i]) }
    IN  [ key \in { keys[i] : i \in kept } |-> Cardinality({ i \in kept : keys[i] = key }) ]

time_trend(frame, idx, gran) ==
    GroupCount(frame, [ i \in Labels(idx) |-> <<Bucket(frame.rows[i]["LQE Date"], gran)>> ])

cat_time(frame, idx, gran, c) ==
    GroupCount(frame, [ i \in Labels(idx) |->
                          <<Bucket(frame.rows[i]["LQE Date"], gran), frame.rows[i][c]>> ])

TrendCharts ==
    /\ pc = "trend"
    /\ IF "Task ID" \notin df.cols
       THEN /\ Raise("KeyError: 'Task ID'")
            /\ UNCHANGED <<granularity, trends>>
       ELSE IF "Category" \notin df.cols
       THEN /\ Raise("KeyError: 'Category'")
            /\ UNCHANGED <<granularity, trends>>
       ELSE IF "Sub - cateogory" \notin df.cols
       THEN /\ Raise("KeyError: 'Sub - cateogory'")
            /\ UNCHANGED <<granularity, trends>>
       ELSE /\ granularity' = [trend |-> TrendGranularity(date_range),
                               cat |-> CatGranularity(date_range),
                               subcat |-> SubcatGranularity(date_range)]
            /\ trends' =
                 [time_trend |-> time_trend(df, filtered_df, TrendGranularity(date_range)),
                  cat_time |-> cat_time(df, filtered_df, CatGranularity(date_range), "Category"),
                  subcat_time |-> cat_time(df, filtered_df, SubcatGranularity(date_range),
                                           "Sub - cateogory")]
            /\ pc' = "breakdown"
            /\ UNCHANGED failure
    /\ UNCHANGED <<uploaded_file, df, all_owners, selected_owner, date_range, filtered_df,
                   pivot_table, value_counts, search_term, display_df, total_pages, page,
                   page_df, rendered, metrics, messages>>

----------------------------------------------------------------------------
(* Distribution pies, heatmap and bar tabs: lines 259-365 *)

\* the columns of the four pies
PieColumns == {"Content Type", "Service Type", "Product", "Issue Type"}

\* the columns of the five bar charts
BarColumns == {FactorColumn, "Category", "Sub - cateogory", "Clarification", "Sub-clarification"}

\* lines 294-295: groupby(...).size(), pivot, fillna(0)
heatmap(frame, idx) ==
    LET cat_subcat == GroupSize([ i \in Labels(idx) |-> <<frame.rows[i]["Category"],
                                                          frame.rows[i]["Sub - cateogory"]>> ])
        index == { key[1] : key \in DOMAIN cat_subcat }
        columns == { key[2] : key \in DOMAIN cat_subcat }
    IN  [index |-> index,
         columns |-> columns,
         cell |-> [ key \in index \X columns |->
                      IF key \in DOMAIN cat_subcat THEN cat_subcat[key] ELSE 0 ]]

\* Series.value_counts(): missing values are not counted
ValueCounts(frame, idx, c) ==
    LET present == { i \in Labels(idx) : ~ isna(frame.rows[i][c]) }
    IN  [ v \in { frame.rows[i][c] : i \in present } |->
            Cardinality({ i \in present : frame.rows[i][c] = v }) ]

Breakdowns ==
    /\ pc = "breakdown"
    /\ IF ~ (PieColumns \subseteq df.cols)
       THEN /\ Raise("ValueError: pie column")
            /\ UNCHANGED <<pivot_table, value_counts>>
       ELSE IF ~ (BarColumns \subseteq df.cols)
       THEN /\ Raise("KeyError: bar column")
            /\ pivot_table' = heatmap(df, filtered_df)
            /\ UNCHANGED value_counts
       ELSE /\ pivot_table' = heatmap(df, filtered_df)
            /\ value_counts' =
                 [factor_df |-> ValueCounts(df, filtered_df, FactorColumn),
                  cat_df |-> ValueCounts(df, filtered_df, "Category"),
                  subcat_df |-> ValueCounts(df, filtered_df, "Sub - cateogory"),
                  clarif_df |-> ValueCounts(df, filtered_df, "Clarification"),
                  subclarif_df |-> ValueCounts(df, filtered_df, "Sub-clarification")]
            /\ pc' = "search"
            /\ UNCHANGED failure
    /\ UNCHANGED <<uploaded_file, df, all_owners, selected_owner, date_range, filtered_df,
                   granularity, trends, search_term, display_df, total_pages, page,
                   page_df, rendered, metrics, messages>>

----------------------------------------------------------------------------
(* Search in the error details: lines 367-384 *)

\* what the user can type in the search box; "" leaves the search off
SearchTerms == { <<>>, <<"a", "b">>, <<"a", ".">> }

\* re.search(pat, text, re.IGNORECASE) for a pattern of literal characters and
\* the wildcard "." (str.contains keeps its default regex=True)
MatchAt(pat, text, pos) ==
    \A k \in 1..Len(pat) : pat[k] = "." \/ lower(pat[k]) = lower(text[pos + k])

re_search(pat, text) ==
    \E pos \in 0..(Len(text) - Len(pat)) : MatchAt(pat, text, pos)

\* Series.str.contains(pat, case=False), for one cell of an object column:
\* True, False, or NaN for a missing cell
contains(cell, pat) ==
    IF isna(cell) THEN "NaN"
    ELSE IF re_search(pat, cell) THEN "True" ELSE "False"

\* left | right, for one row of two object masks: a NaN on the right is filled
\* with False before the operation, a NaN on the left makes the result NaN,
\* which is filled with False after it
Or(left, right) ==
    IF left = "NaN" THEN "False"
    ELSE IF left = "True" \/ right = "True" THEN "True" ELSE "False"

\* the columns of lines 374-377, in the order the expression reads them
SearchColumns == <<"Source Text", "Translated Text", "Error Type & comment", "Task ID">>

SearchMask(row, pat) ==
    Or(Or(Or(contains(row["Source Text"], pat),
             contains(row["Translated Text"], pat)),
          contains(row["Error Type & comment"], pat)),
       contains(row["Task ID"], pat))

\* the .str accessor needs a column of strings: a column whose cells are all
\* missing is read as float64 and .str raises AttributeError
StrAccessorOK(frame, c) == \E i \in 1..Len(frame.rows) : ~ isna(frame.rows[i][c])

search_results(frame, idx, pat) ==
    SelectSeq(idx, LAMBDA i : SearchMask(frame.rows[i], pat) = "True")

\* the date a row sorts by is greater: a missing date sorts last
SortsBefore(a, b) == ~ isna(a) /\ (isna(b) \/ ~ DateLE(a, b))

\* put label i into a sorted sequence of labels, after the labels that do not sort after it
Insert(frame, sorted, i) ==
    LET d == frame.rows[i]["LQE Date"]
        later == { p \in 1..Len(sorted) : SortsBefore(d, frame.rows[sorted[p]]["LQE Date"]) }
        at == IF later = {} THEN Len(sorted) + 1
              ELSE CHOOSE p \in later : \A q \in later : p <= q
    IN  SubSeq(sorted, 1, at - 1) \o <<i>> \o SubSeq(sorted, at, Len(sorted))

RECURSIVE sort_values(_, _)
\* display_df.sort_values('LQE Date', ascending=False); rows of one date keep
\* their order
sort_values(frame, idx) ==
    IF idx = <<>> THEN <<>>
    ELSE Insert(frame, sort_values(frame, SubSeq(idx, 1, Len(idx) - 1)), idx[Len(idx)])

SearchDetails ==
    /\ pc = "search"
    /\ \E term \in SearchTerms :
        /\ search_term' = term
        /\ IF term # <<>> /\ \E k \in 1..4 : SearchColumns[k] \notin df.cols
           THEN /\ Raise("KeyError: search column")
                /\ UNCHANGED display_df
           ELSE IF term # <<>> /\ \E k \in 1..4 : ~ StrAccessorOK(df, SearchColumns[k])
           THEN /\ Raise("AttributeError: .str")
                /\ UNCHANGED display_df
           ELSE /\ display_df' = sort_values(df, IF term # <<>>
                                                 THEN search_results(df, filtered_df, term)
                                                 ELSE filtered_df)
                /\ pc' = "paginate"
                /\ UNCHANGED failure
    /\ UNCHANGED <<uploaded_file, df, all_owners, selected_owner, date_range, filtered_df,
                   granularity, trends, pivot_table, value_counts, total_pages, page,
                   page_df, rendered, metrics, messages>>

----------------------------------------------------------------------------
(* Pagination: lines 386-395 and 454-455 *)
(* st.slider returns a value between the bounds it is given.                *)

\* TotalPages without the rounding up
TotalPagesFloor(n) == n \div items_per_page

\* line 388
TotalPages(n) == (n + items_per_page - 1) \div items_per_page

\* PagerShown that lets an empty set through
PagerShownAlways(pages) == pages >= 0

\* line 390
PagerShown(pages) == pages > 0

\* frame.iloc[start:end]
iloc(idx, start, end) == SubSeq(idx, start + 1, Min(end, Len(idx)))

\* lines 392-395
page_slice(idx, p) ==
    LET start_idx == (p - 1) * items_per_page
        end_idx == Min(start_idx + items_per_page, Len(idx))
    IN  iloc(idx, start_idx, end_idx)

NoResults == "No errors found matching the current filters."

Paginate ==
    /\ pc = "paginate"
    /\ total_pages' = TotalPages(Len(display_df))
    /\ IF PagerShown(TotalPages(Len(display_df)))
       THEN /\ page' \in 1..Max(1, TotalPages(Len(display_df)))
            /\ page_df' = page_slice(display_df, page')
            /\ pc' = "render"
            /\ UNCHANGED messages
       ELSE /\ messages' = messages \cup {NoResults}
            /\ pc' = "done"
            /\ UNCHANGED <<page, page_df>>
    /\ UNCHANGED <<uploaded_file, failure, df, all_owners, selected_owner, date_range,
                   filtered_df, granularity, trends, pivot_table, value_counts,
                   search_term, display_df, rendered, metrics>>

----------------------------------------------------------------------------
(* Detail view: lines 397-452 *)

\* what a box of the detail view holds
Shown(v) == <<"text", v>>
NotAvailable == <<"Not available">>
ShownNaN == <<"nan">>
Nothing == <<>>

\* the columns the expander title and the left column index without a check
DetailColumns ==
    { "Task ID", "LQE Date", "Content Type", "Owner", "Project", "Product", "Service Type",
      "Issue Type", FactorColumn, "Category", "Sub - cateogory", "Final status" }

\* lines 415-418, 421-424, 445-448
TextBox(row, c) ==
    IF c \in DOMAIN row /\ ~ isna(row[c]) THEN Shown(row[c]) ELSE NotAvailable

\* line 436: 'correct' in col.lower() and 'edit' in col.lower(), over the
\* column names of the model
LooksLikeCorrected(c) == c \in {"Corrected Text Show Edits", AltCorrectedColumn}

\* lines 427-442
CorrectedBox(row) ==
    IF "Corrected Text Show Edits" \in DOMAIN row
    THEN IF ~ isna(row["Corrected Text Show Edits"])
         THEN Shown(row["Corrected Text Show Edits"])
         ELSE NotAvailable
    ELSE LET possible_columns == { c \in DOMAIN row : LooksLikeCorrected(c) }
         IN  IF possible_columns # {}
             THEN LET v == row[CHOOSE c \in possible_columns : TRUE]
                  IN  IF isna(v) THEN ShownNaN ELSE Shown(v)
             ELSE NotAvailable

\* lines 450-452
RemarkBox(row) ==
    IF "Remark" \in DOMAIN row /\ ~ isna(row["Remark"]) THEN Shown(row["Remark"]) ELSE Nothing

RenderRow(row) ==
    [ source |-> TextBox(row, "Source Text"),
      translated |-> TextBox(row, "Translated Text"),
      corrected |-> CorrectedBox(row),
      error |-> TextBox(row, "Error Type & comment"),
      remark |-> RemarkBox(row) ]

RenderDetails ==
    /\ pc = "render"
    /\ IF ~ (DetailColumns \subseteq df.cols)
       THEN /\ Raise("KeyError: detail column")
            /\ UNCHANGED rendered
       ELSE IF \E j \in 1..Len(page_df) : isna(df.rows[page_df[j]]["LQE Date"])
       THEN /\ Raise("ValueError: NaT strftime")
            /\ UNCHANGED rendered
       ELSE /\ rendered' = [ j \in 1..Len(page_df) |-> RenderRow(df.rows[page_df[j]]) ]
            /\ pc' = "done"
            /\ UNCHANGED failure
    /\ UNCHANGED <<uploaded_file, df, all_owners, selected_owner, date_range, filtered_df,
                   granularity, trends, pivot_table, value_counts, search_term,
                   display_df, total_pages, page, page_df, metrics, messages>>

----------------------------------------------------------------------------
(* The run *)

InitWith(files) ==
    /\ uploaded_file \in files
    /\ pc = "load"
    /\ failure = "none"
    /\ df = [cols |-> {}, rows |-> <<>>]
    /\ all_owners = {}
    /\ selected_owner = "All Owners"
    /\ date_range = <<>>
    /\ filtered_df = <<>>
    /\ granularity = [trend |-> "month", cat |-> "month", subcat |-> "month"]
    /\ trends = [time_trend |-> <<>>, cat_time |-> <<>>, subcat_time |-> <<>>]
    /\ pivot_table = [index |-> {}, columns |-> {}, cell |-> <<>>]
    /\ value_counts = [factor_df |-> <<>>, cat_df |-> <<>>, subcat_df |-> <<>>,
                       clarif_df |-> <<>>, subclarif_df |-> <<>>]
    /\ search_term = <<>>
    /\ display_df = <<>>
    /\ total_pages = 0
    /\ page = 0
    /\ page_df = <<>>
    /\ rendered = <<>>
    /\ metrics = [total |-> 0, internal |-> 0, external |-> 0]
    /\ messages = {}

Next ==
    \/ LoadData
    \/ SidebarFilters
    \/ ApplyFilters
    \/ Metrics
    \/ TrendCharts
    \/ Breakdowns
    \/ SearchDetails
    \/ Paginate
    \/ RenderDetails

----------------------------------------------------------------------------
(* Uploaded files that vary the owner and the date *)

FilterOwners == { StrOwner("A"), StrOwner("B"), NaN }
FilterDates == { <<2023, 1, 20>>, <<2023, 2, 10>>, NaN }

FilterRows ==
    { With(With(BaseRow, "Owner", o), "LQE Date", d) : o \in FilterOwners, d \in FilterDates }

FilterFiles == { Xlsx(ReadColumns, rows) : rows \in SeqsUpTo(FilterRows, MaxRows) }

InitFilter == InitWith(FilterFiles)

SpecFilter == InitFilter /\ [][Next]_vars

----------------------------------------------------------------------------
(* Uploaded files that vary the grouping fields and the Task ID *)

GroupRows ==
    { With(With(With(With(BaseRow, "Category", c), "Sub - cateogory", s), "Task ID", t),
           "LQE Date", d) :
        c \in {Cat("Major"), Cat("Minor"), NaN},
        s \in {Cat("Linguistic"), Cat("Technical"), NaN},
        t \in {<<"T", "-", "1">>, NaN},
        d \in {<<2023, 1, 20>>, <<2023, 2, 10>>} }
    \cup { With(BaseRow, c, NaN) : c \in {FactorColumn, "Clarification", "Sub-clarification"} }

GroupFiles == { Xlsx(ReadColumns, rows) : rows \in SeqsUpTo(GroupRows, MaxRows) }

InitGroup == InitWith(GroupFiles)

SpecGroup == InitGroup /\ [][Next]_vars

----------------------------------------------------------------------------
(* Long uploaded files, for the pager *)

PageDates == << <<2023, 1, 10>>, <<2023, 1, 20>>, <<2023, 2, 10>> >>

PageRow(i) ==
    With(With(With(BaseRow,
        "Owner", IF i % 2 = 0 THEN StrOwner("A") ELSE StrOwner("B")),
        "LQE Date", PageDates[1 + (i % 3)]),
        "Task ID", IF i % 4 = 0 THEN <<"A", "B", "-", Digit(i)>> ELSE <<"T", "-", Digit(i)>>)

PageFiles == { Xlsx(ReadColumns, [ i \in 1..n |-> PageRow(i) ]) : n \in 0..MaxPageRows }

InitPage == InitWith(PageFiles)

SpecPage == InitPage /\ [][Next]_vars

----------------------------------------------------------------------------
(* Uploaded files that vary the four searched fields *)

SearchRows ==
    { With(With(With(With(BaseRow, "Source Text", s), "Translated Text", t),
           "Error Type & comment", e), "Task ID", k) :
        s \in {NaN, <<"x", "A", "B">>, <<"a", "c">>},
        t \in {NaN, <<"A", "b">>, <<"t", "r", "a">>},
        e \in {NaN, <<"e", "r", "r">>},
        k \in {<<"a", "b", "-", "1">>, <<"T", "-", "1">>} }

SearchFiles == { Xlsx(ReadColumns, rows) : rows \in SeqsUpTo(SearchRows, MaxRows) }

InitSearch == InitWith(SearchFiles)

SpecSearch == InitSearch /\ [][Next]_vars

----------------------------------------------------------------------------
(* Uploaded files that vary the five text fields of the detail view *)

DetailTextColumns ==
    {"Source Text", "Translated Text", "Corrected Text Show Edits", "Error Type & comment",
     "Remark"}

\* complete, one text missing, every text missing
DetailRows ==
    { BaseRow }
    \cup { With(BaseRow, c, NaN) : c \in DetailTextColumns }
    \cup { [ c \in ReadColumns |-> IF c \in DetailTextColumns THEN NaN ELSE BaseRow[c] ] }

\* the corrected text under the other column name
Renamed(row) ==
    With(Without(row, "Corrected Text Show Edits"), AltCorrectedColumn,
         row["Corrected Text Show Edits"])

\* the layouts of a file: every column, the corrected text renamed, a text column left out
Layouts == {"full", "renamed"} \cup DetailTextColumns

Laid(row, layout) ==
    CASE layout = "full" -> row
      [] layout = "renamed" -> Renamed(row)
      [] OTHER -> Without(row, layout)

DetailFiles ==
    { Xlsx(DOMAIN Laid(BaseRow, layout), [ i \in DOMAIN rows |-> Laid(rows[i], layout) ]) :
        rows \in SeqsUpTo(DetailRows, MaxRows), layout \in Layouts }

InitDetail == InitWith(DetailFiles)

SpecDetail == InitDetail /\ [][Next]_vars

----------------------------------------------------------------------------
(* Load outcomes: no file, a file that fails to parse, files that lack a column *)

LoadRows == { BaseRow, With(BaseRow, "Owner", StrOwner("B")),
              With(BaseRow, "LQE Date", <<2023, 2, 10>>) }

\* columns other than Task ID and the date that a file may lack
DroppedColumns == {"Owner", "Category", "Content Type", "Project", "Remark", FactorColumn}

LoadFiles ==
    { NoFile, BadFile }
    \cup { Xlsx(ReadColumns, rows) : rows \in SeqsUpTo(LoadRows, MaxRows) \ {<<>>} }
    \cup { Xlsx(ReadColumns \ {c}, [ i \in DOMAIN rows |-> Without(rows[i], c) ]) :
             rows \in SeqsUpTo(LoadRows, MaxRows) \ {<<>>}, c \in DroppedColumns }

InitLoad == InitWith(LoadFiles)

SpecLoad == InitLoad /\ [][Next]_vars

----------------------------------------------------------------------------
(* Uploaded files that vary the kind of the owner cell; every row is dated *)

OwnerCells == { StrOwner("A"), StrOwner("5"), IntOwner("5"), NaN }

OwnerRows ==
    { With(With(BaseRow, "Owner", o), "LQE Date", d) :
        o \in OwnerCells, d \in {<<2023, 1, 20>>, <<2023, 2, 10>>} }

OwnerFiles == { Xlsx(ReadColumns, rows) : rows \in SeqsUpTo(OwnerRows, MaxRows) }

InitOwner == InitWith(OwnerFiles)

SpecOwner == InitOwner /\ [][Next]_vars

----------------------------------------------------------------------------
(* Stages of a run that has not failed *)

FilterApplied == pc \in {"metrics", "trend", "breakdown", "search", "paginate", "render", "done"}
TrendsDrawn == pc \in {"breakdown", "search", "paginate", "render", "done"}
BreakdownsDrawn == pc \in {"search", "paginate", "render", "done"}
Searched == pc \in {"paginate", "render", "done"}
Paginated == pc \in {"render", "done"}

\* no label twice, and the labels in the order of df
Ascending(idx) == \A j \in 1..Len(idx), k \in 1..Len(idx) : j < k => idx[j] < idx[k]

----------------------------------------------------------------------------
(* C1 *)

\* C1: once the filters are applied, a record is in the filtered set exactly
\* when its owner is the selected one (any owner under "All Owners") and, for
\* a range of two bounds, its date lies in start <= date <= end, both ends
\* included; a range of fewer than two bounds leaves the date out of the test.
\* The filtered set keeps the records in their order, each once.
C1_FilterExact ==
    FilterApplied =>
        /\ Ascending(filtered_df)
        /\ \A i \in 1..Len(df.rows) :
             i \in Labels(filtered_df) <=>
                /\ selected_owner = "All Owners"
                   \/ df.rows[i]["Owner"] = StrOwner(selected_owner)
                /\ Len(date_range) = 2 =>
                     /\ df.rows[i]["LQE Date"] # NaN
                     /\ DateLE(date_range[1], df.rows[i]["LQE Date"])
                     /\ DateLE(df.rows[i]["LQE Date"], date_range[2])

\* a run with an owner and a range selected that keeps a record dated on the
\* end of the range and drops a record of the same owner outside the range
C1_Witness ==
    /\ pc = "done"
    /\ selected_owner # "All Owners"
    /\ Len(date_range) = 2
    /\ date_range[1] # date_range[2]
    /\ \E i \in Labels(filtered_df) : df.rows[i]["LQE Date"] = date_range[2]
    /\ \E j \in 1..Len(df.rows) :
         /\ j \notin Labels(filtered_df)
         /\ df.rows[j]["Owner"] = StrOwner(selected_owner)

----------------------------------------------------------------------------
(* C2 *)

\* C2: with "All Owners" selected and the default range from the earliest to
\* the latest date of the record set, the filtered set is the whole record
\* set, every record once and in order.
C2_DefaultKeepsAll ==
    ( /\ FilterApplied
      /\ selected_owner = "All Owners"
      /\ date_range = <<date_min(df), date_max(df)>> )
    => filtered_df = AllRows(df)

----------------------------------------------------------------------------
(* C7 *)

\* C7: once the trends are drawn, the overall trend is bucketed by day exactly
\* when the range has two bounds of the same year and the same month, and by
\* month otherwise; the category and the sub-category trend use the bucket of
\* the overall trend; under "month" every bucket is the first day of a month.
C7_Granularity ==
    TrendsDrawn =>
        /\ granularity.trend \in {"day", "month"}
        /\ granularity.trend = "day" <=>
             /\ Len(date_range) = 2
             /\ date_range[1][1] = date_range[2][1]
             /\ date_range[1][2] = date_range[2][2]
        /\ granularity.cat = granularity.trend
        /\ granularity.subcat = granularity.trend
        /\ granularity.trend = "month" =>
             /\ \A key \in DOMAIN trends.time_trend : key[1][3] = 1
             /\ \A key \in DOMAIN trends.cat_time : key[1][3] = 1
             /\ \A key \in DOMAIN trends.subcat_time : key[1][3] = 1
        /\ granularity.trend = "day" =>
             \A key \in DOMAIN trends.time_trend :
                \E i \in Labels(filtered_df) : df.rows[i]["LQE Date"] = key[1]

\* a run over a range of two different days of one month that draws a daily
\* trend with a point in it
C7_Witness ==
    /\ pc = "done"
    /\ Len(date_range) = 2
    /\ date_range[1] # date_range[2]
    /\ granularity.trend = "day"
    /\ DOMAIN trends.time_trend # {}

----------------------------------------------------------------------------
(* C3 *)

RECURSIVE SumCounts(_)
\* the sum of the counts of a grouped count
SumCounts(counts) ==
    IF DOMAIN counts = {} THEN 0
    ELSE LET key == CHOOSE key \in DOMAIN counts : TRUE
         IN  counts[key] + SumCounts([ k \in (DOMAIN counts) \ {key} |-> counts[k] ])

\* C3: once the trends and the bar charts are drawn, the counts of each
\* grouped count (the three trends and the five per-column value counts) add
\* up to the number of records of the filtered set.
C3_CountsConserved ==
    BreakdownsDrawn =>
        /\ SumCounts(trends.time_trend) = Len(filtered_df)
        /\ SumCounts(trends.cat_time) = Len(filtered_df)
        /\ SumCounts(trends.subcat_time) = Len(filtered_df)
        /\ SumCounts(value_counts.factor_df) = Len(filtered_df)
        /\ SumCounts(value_counts.cat_df) = Len(filtered_df)
        /\ SumCounts(value_counts.subcat_df) = Len(filtered_df)
        /\ SumCounts(value_counts.clarif_df) = Len(filtered_df)
        /\ SumCounts(value_counts.subclarif_df) = Len(filtered_df)

----------------------------------------------------------------------------
(* C8 *)

\* the values of column c seen in the filtered set
Observed(c) == { df.rows[i][c] : i \in Labels(filtered_df) } \ {NaN}

\* C8: once the heatmap is drawn, its rows are the categories seen in the
\* filtered set, its columns the sub-categories seen in it, and every cell,
\* also of a pair no record has, is the number of records with that category
\* and that sub-category, never negative.
C8_HeatmapDense ==
    BreakdownsDrawn =>
        /\ pivot_table.index = Observed("Category")
        /\ pivot_table.columns = Observed("Sub - cateogory")
        /\ DOMAIN pivot_table.cell = pivot_table.index \X pivot_table.columns
        /\ \A key \in DOMAIN pivot_table.cell :
             /\ pivot_table.cell[key] >= 0
             /\ pivot_table.cell[key] =
                  Cardinality({ i \in Labels(filtered_df) :
                                  /\ df.rows[i]["Category"] = key[1]
                                  /\ df.rows[i]["Sub - cateogory"] = key[2] })

----------------------------------------------------------------------------
(* C4 *)

\* the rows of idx from the latest date to the earliest, rows without a date last
SortedDescending(idx) ==
    \A j \in 1..Len(idx), k \in 1..Len(idx) :
        j < k => ~ SortsBefore(df.rows[idx[k]]["LQE Date"], df.rows[idx[j]]["LQE Date"])

\* C4: once the pager has run over a display set of n records, the set is
\* sorted by date descending, the page count is ceil(n / 10), and for n > 0
\* the page shown is within 1..max(1, page count) and holds exactly the
\* records at positions (page-1)*10 .. min((page-1)*10 + 10, n) - 1 of the
\* sorted set; 23 records give 3 pages and page 3 holds 3 records.
C4_Pagination ==
    Paginated =>
        LET n == Len(display_df) IN
        /\ SortedDescending(display_df)
        /\ total_pages * items_per_page >= n
        /\ (total_pages - 1) * items_per_page < n
        /\ n > 0 =>
             /\ page \in 1..Max(1, total_pages)
             /\ Len(page_df) = Min((page - 1) * items_per_page + items_per_page, n)
                                 - (page - 1) * items_per_page
             /\ \A k \in 1..Len(page_df) :
                  page_df[k] = display_df[(page - 1) * items_per_page + k]
        /\ n = 23 => total_pages = 3 /\ (page = 3 => Len(page_df) = 3)

\* a run that shows the third and last page of 23 records
C4_Witness ==
    /\ pc = "done"
    /\ Len(display_df) = 23
    /\ total_pages = 3
    /\ page = 3
    /\ Len(page_df) = 3
    /\ Len(rendered) = 3

----------------------------------------------------------------------------
(* C5 *)

\* C5 as claimed: a display set of no records gives exactly one page, shown
\* as the "no results" message, and the run does not fail.
C5_EmptyIsOnePage ==
    (Paginated /\ Len(display_df) = 0) =>
        /\ total_pages = 1
        /\ NoResults \in messages
        /\ failure = "none"

\* C5 as amended: a display set of no records gives a page count of 0, no
\* slider, no page and no detail view; the "no results" message is shown in
\* their place and the run ends without a failure.  The message is shown for
\* no other display set.
C5_EmptyShowsNoResults ==
    /\ (Paginated /\ Len(display_df) = 0) =>
          /\ total_pages = 0
          /\ pc = "done"
          /\ NoResults \in messages
          /\ page = 0
          /\ page_df = <<>>
          /\ rendered = <<>>
          /\ failure = "none"
    /\ NoResults \in messages => (pc = "done" /\ Len(display_df) = 0)

\* a run whose search finds nothing in a filtered set that has records
C5_Witness ==
    /\ pc = "done"
    /\ Len(filtered_df) > 0
    /\ search_term # <<>>
    /\ Len(display_df) = 0
    /\ NoResults \in messages

----------------------------------------------------------------------------
(* C6 *)

\* the query occurs in the text, letter for letter, whatever the case
OccursIn(query, text) ==
    \E pos \in 0..(Len(text) - Len(query)) :
        \A k \in 1..Len(query) : lower(query[k]) = lower(text[pos + k])

\* C6: the search does not fail; an empty query leaves the filtered set as it
\* is, and another query returns exactly the records of the filtered set in
\* which it occurs, whatever the case, in the Task ID, the source text, the
\* translated text or the error comment.
C6_SearchExact ==
    /\ failure # "AttributeError: .str"
    /\ Searched =>
         /\ search_term = <<>> => Labels(display_df) = Labels(filtered_df)
         /\ search_term # <<>> =>
              \A i \in Labels(filtered_df) :
                 i \in Labels(display_df) <=>
                    \E k \in 1..4 :
                       /\ ~ isna(df.rows[i][SearchColumns[k]])
                       /\ OccursIn(search_term, df.rows[i][SearchColumns[k]])

----------------------------------------------------------------------------
(* C9 *)

\* the corrected text of a row: the cell of its column, or of the column the
\* name match finds, or missing
CorrectedCell(row) ==
    IF "Corrected Text Show Edits" \in DOMAIN row THEN row["Corrected Text Show Edits"]
    ELSE IF AltCorrectedColumn \in DOMAIN row THEN row[AltCorrectedColumn]
    ELSE NaN

Missing(row, c) == c \notin DOMAIN row \/ isna(row[c])

\* C9: the detail view does not fail, and for every record it shows, each of
\* the five text fields that is absent or null is written as "Not available".
C9_MissingIsNotAvailable ==
    /\ failure \notin {"KeyError: detail column", "ValueError: NaT strftime"}
    /\ pc = "done" =>
         \A j \in 1..Len(rendered) :
            LET row == df.rows[page_df[j]] IN
            /\ Missing(row, "Source Text") => rendered[j].source = NotAvailable
            /\ Missing(row, "Translated Text") => rendered[j].translated = NotAvailable
            /\ isna(CorrectedCell(row)) => rendered[j].corrected = NotAvailable
            /\ Missing(row, "Error Type & comment") => rendered[j].error = NotAvailable
            /\ Missing(row, "Remark") => rendered[j].remark = NotAvailable

----------------------------------------------------------------------------
(* C10 *)

\* C10: no run fails; without a file, or with a file that does not parse, the
\* record set is the demo data of 100 records.
C10_AlwaysRenders ==
    /\ pc # "failed"
    /\ (pc # "load" /\ uploaded_file.kind \in {"none", "bad"}) => Len(df.rows) = DemoRows

----------------------------------------------------------------------------
(* C11 *)

\* the label the selector shows for an owner cell
OwnerLabel(owner) == IF isna(owner) THEN "Unknown" ELSE owner[2]

\* C11: under the default range from the earliest to the latest date, an
\* option of the owner selector other than "All Owners" selects exactly the
\* records whose owner is shown as that option, and so at least one record.
C11_OptionSelectsItsOwners ==
    ( /\ FilterApplied
      /\ selected_owner # "All Owners"
      /\ date_range = <<date_min(df), date_max(df)>> )
    => /\ Labels(filtered_df) =
            { i \in 1..Len(df.rows) : OwnerLabel(df.rows[i]["Owner"]) = selected_owner }
       /\ filtered_df # <<>>

====
